---- MODULE Spec2Model ----
(***************************************************************************)
(* A model of paularlott/logger: the Logger contract and its backends      *)
(* (null, capturing mock, slog-based standard backend, zerolog backend).   *)
(*                                                                         *)
(* One program run constructs one backend (chosen in Init, with its        *)
(* configuration) and then calls the Logger interface on the root logger   *)
(* and on the loggers derived from it.                                     *)
(***************************************************************************)
EXTENDS Integers, Sequences, FiniteSets, TLC

VARIABLES
    backend,    \* which implementation New() built: "null", "mock", "slog", "zerolog"
    cfg,        \* the Config handed to New
    loggers,    \* the logger values built so far; loggers[1] is the root
    heap,       \* mock: the backing arrays of the Entries slices
    ncaptured,  \* mock: number of entries appended so far, over all loggers
    nwrites,    \* number of Write calls made on the configured io.Writer
    lastWrite,  \* payload of the most recent Write call
    status,     \* "running", "fatal" (record handed to the writer, os.Exit pending), "exited", "panicked"
    exitCode,   \* argument of os.Exit once status = "exited"
    last,       \* history: the most recent interface call and what it returned
    parent,     \* history: parent[i] is the logger that i was derived from (0 for the root)
    chain,      \* history: chain[i] is the sequence of With* calls that built logger i
    procs       \* concurrent callers: what each one is in the middle of

vars == <<backend, cfg, loggers, heap, ncaptured, nwrites, lastWrite, status, exitCode, last,
          parent, chain, procs>>

(***************************************************************************)
(* Bounds of the model                                                     *)
(***************************************************************************)
MaxLoggers == 3       \* logger values alive in one run (root included)
MaxEntries == 3       \* entries captured in one run of SpecQueries
MaxTreeEntries == 2   \* entries captured in one run of SpecContext
MaxWrites == 2        \* Write calls on the sink in one run of SpecContext
MaxSlogLoggers == 2   \* logger values alive in one run of SpecSlog
MaxSlogWrites == 1    \* Write calls on the sink in one run of SpecSlog
MaxConfigWrites == 1  \* Write calls on the sink in one run of SpecConfig
MaxGroupLoggers == 3  \* logger values alive in one run of SpecGroupField
MaxGroupWrites == 1   \* Write calls on the sink in one run of SpecGroupField
MaxSharedLoggers == 2 \* logger values alive in one run of SpecShared
MaxSharedEntries == 5 \* entries captured in one run of SpecShared
MaxCopyLoggers == 2   \* logger values alive in one run of SpecCopies
MaxCopyEntries == 2   \* entries captured in one run of SpecCopies
MaxLockLoggers == 2   \* logger values alive in one run of SpecLocking
MaxLockEntries == 5   \* entries captured in one run of SpecLocking
MaxConsoleLoggers == 2 \* logger values alive in one run of SpecConsole
MaxConsoleWrites == 2 \* Write calls on the sink in one run of SpecConsole
MaxSugarLoggers == 3  \* logger values alive in one run of SpecSugar
MaxSugarEmits == 1    \* emissions in one run of SpecSugar
MaxLineLoggers == 3   \* logger values alive in one run of SpecLine
MaxLineWrites == 1    \* Write calls on the sink in one run of SpecLine
MaxNestedLoggers == 3 \* logger values alive in one run of SpecNested
MaxNestedWrites == 1  \* Write calls on the sink in one run of SpecNested

(***************************************************************************)
(* Values of Go's `any` that the calls are exercised with                  *)
(***************************************************************************)
StrV(s) == [t |-> "str", v |-> s]
IntV(n) == [t |-> "int", v |-> n]
ErrV(m) == [t |-> "err", v |-> m]
\* An error with message m whose type has a MarshalJSON method giving j.
MarshalErrV(m, j) == [t |-> "jerr", v |-> m, json |-> j]
LvlV(n) == [t |-> "level", v |-> n]

IsString(x) == x.t = "str"

\* The six emission methods of the Logger interface.
Methods == {"Trace", "Debug", "Info", "Warn", "Error", "Fatal"}

Msgs == {"x", "y"}

\* The record of an interface call kept in `last`.
Call(op, lg, method, msg, kvs, ret) ==
    [op |-> op, lg |-> lg, method |-> method, msg |-> msg, kvs |-> kvs, ret |-> ret,
     writes |-> 0]

\* The goroutines that call the loggers concurrently; the calls of the other
\* actions are made one after the other and leave them idle.
Callers == {"c1", "c2"}
Idle == [pc |-> "idle"]
NoProcs == [p \in Callers |-> Idle]

\* Go maps as functions on a finite set of keys.
EmptyMap == <<>>
MapPut(m, key, value) ==
    [k \in (DOMAIN m) \cup {key} |-> IF k = key THEN value ELSE m[k]]

(***************************************************************************)
(* Capturing backend (testing/mock.go)                                     *)
(*                                                                         *)
(* MockLogger.Entries is a Go slice: a header (ptr, len, cap) held by      *)
(* value in each MockLogger, over a backing array on the heap.  heap[p] is *)
(* the backing array p, Len(heap[p]) its capacity; ptr 0 is the array of   *)
(* make([]LogEntry, 0).                                                    *)
(***************************************************************************)
\* The field obj of an entry names the map and the argument slice its Attrs and
\* KeysAndValues refer to (0: nil): entries copied from one another share them.
ZeroEntry ==
    [Level |-> "", Message |-> "", KeysAndValues |-> <<>>, Attrs |-> EmptyMap, Group |-> "",
     obj |-> 0]

EmptySlice == [ptr |-> 0, len |-> 0, cap |-> 0]

\* The level string each method of MockLogger passes to log.
MockLevel(method) ==
    CASE method = "Trace" -> "trace"
      [] method = "Debug" -> "debug"
      [] method = "Info"  -> "info"
      [] method = "Warn"  -> "warn"
      [] method = "Error" -> "error"
      [] method = "Fatal" -> "fatal"

MockLevels == {MockLevel(m) : m \in Methods}

\* New(): empty Entries, empty attrs, no group.
MockNew == [Entries |-> EmptySlice, attrs |-> EmptyMap, group |-> ""]

\* The elements a slice header denotes: s[0:len].
SliceElems(hp, s) == IF s.len = 0 THEN <<>> ELSE SubSeq(hp[s.ptr], 1, s.len)

\* Capacity chosen by the runtime when append outgrows the array
\* (doubling, for the 80-byte LogEntry and the capacities reached here).
GrowCap(oldcap) == IF oldcap = 0 THEN 1 ELSE 2 * oldcap

\* append(s, e): in place when len < cap, else into a fresh array.
\* Returns the new header and the new heap.
SliceAppend(hp, s, e) ==
    IF s.len < s.cap
    THEN [slice |-> [s EXCEPT !.len = s.len + 1],
          heap  |-> [hp EXCEPT ![s.ptr][s.len + 1] = e]]
    ELSE LET newcap == GrowCap(s.cap)
             arr == [k \in 1..newcap |->
                        IF k <= s.len THEN hp[s.ptr][k]
                        ELSE IF k = s.len + 1 THEN e ELSE ZeroEntry]
         IN [slice |-> [ptr |-> Len(hp) + 1, len |-> s.len + 1, cap |-> newcap],
             heap  |-> Append(hp, arr)]

\* Garbage collection: arrays no header points to are dropped (and the
\* remaining ones renumbered), as they can never be observed again.
Collect(ls, hp) ==
    LET refs == {ls[i].Entries.ptr : i \in 1..Len(ls)} \ {0}
        newptr(p) == IF p = 0 THEN 0 ELSE Cardinality({q \in refs : q <= p})
        old(n) == CHOOSE p \in refs : newptr(p) = n
    IN [loggers |-> [i \in 1..Len(ls) |->
                        [ls[i] EXCEPT !.Entries.ptr = newptr(ls[i].Entries.ptr)]],
        heap |-> [n \in 1..Cardinality(refs) |-> hp[old(n)]]]

\* MockLogger.log: the entry appended and the append itself.
MockEntry(lg, level, msg, kvs) ==
    [Level |-> level, Message |-> msg, KeysAndValues |-> kvs,
     Attrs |-> lg.attrs, Group |-> lg.group, obj |-> ncaptured + 1]

MockAppend(lg, hp, level, msg, kvs) ==
    LET r == SliceAppend(hp, lg.Entries, MockEntry(lg, level, msg, kvs))
    IN [logger |-> [lg EXCEPT !.Entries = r.slice], heap |-> r.heap]

\* MockLogger.With / WithGroup: the logger value returned.
MockWithValue(lg, key, value) ==
    [Entries |-> lg.Entries, attrs |-> MapPut(lg.attrs, key, value), group |-> lg.group]

MockWithGroupValue(lg, group) ==
    [Entries |-> lg.Entries, attrs |-> lg.attrs, group |-> group]

\* A Reset that leaves the captured entries in place.
MockResetKeep(lg) == lg

\* MockLogger.Reset: the Entries header afterwards.
MockResetValue(lg) == [lg EXCEPT !.Entries = EmptySlice]

\* Queries of the capturing backend, on logger i.
GetEntries(i) == SliceElems(heap, loggers[i].Entries)

HasEntry(i, level, message) ==
    \E k \in 1..Len(GetEntries(i)) :
        GetEntries(i)[k].Level = level /\ GetEntries(i)[k].Message = message

CountEntries(i, level) ==
    Cardinality({k \in 1..Len(GetEntries(i)) : GetEntries(i)[k].Level = level})

Nil == [nil |-> TRUE]

LastEntry(i) ==
    IF Len(GetEntries(i)) = 0 THEN Nil ELSE GetEntries(i)[Len(GetEntries(i))]

\* Inputs the capturing backend is exercised with.
MockKvs == {<<>>}
WithInputs == {<<"a", IntV(1)>>, <<"b", IntV(2)>>}
Groups == {"g1", "g2"}
Errs == {ErrV("boom")}

Ids == 1..Len(loggers)

\* Trace .. Fatal on mock logger i (Fatal only records: the mock never exits).
MockEmit(i, method, msg, kvs) ==
    /\ backend = "mock" /\ status = "running"
    /\ LET r == MockAppend(loggers[i], heap, MockLevel(method), msg, kvs)
           c == Collect([loggers EXCEPT ![i] = r.logger], r.heap)
       IN /\ loggers' = c.loggers
          /\ heap' = c.heap
    /\ ncaptured' = ncaptured + 1
    /\ last' = Call("emit", i, method, msg, kvs, 0)
    /\ UNCHANGED <<procs, backend, cfg, nwrites, lastWrite, status, exitCode, parent, chain>>

\* A With* call on logger i returning the new logger value nl.
Derive(i, nl, call) ==
    /\ loggers' = Append(loggers, nl)
    /\ parent' = Append(parent, i)
    /\ chain' = Append(chain, Append(chain[i], call))
    /\ last' = Call(call.op, i, "", "", <<>>, Len(loggers) + 1)

MockWith(i, key, value) ==
    /\ backend = "mock" /\ status = "running"
    /\ Derive(i, MockWithValue(loggers[i], key, value),
              [op |-> "With", key |-> key, value |-> value])
    /\ UNCHANGED <<procs, backend, cfg, heap, ncaptured, nwrites, lastWrite, status, exitCode>>

\* WithError(err) is With("error", err.Error()).
MockWithError(i, err) ==
    /\ backend = "mock" /\ status = "running"
    /\ Derive(i, MockWithValue(loggers[i], "error", StrV(err.v)),
              [op |-> "WithError", key |-> "error", value |-> err])
    /\ UNCHANGED <<procs, backend, cfg, heap, ncaptured, nwrites, lastWrite, status, exitCode>>

MockWithGroup(i, group) ==
    /\ backend = "mock" /\ status = "running"
    /\ Derive(i, MockWithGroupValue(loggers[i], group),
              [op |-> "WithGroup", key |-> "", value |-> StrV(group)])
    /\ UNCHANGED <<procs, backend, cfg, heap, ncaptured, nwrites, lastWrite, status, exitCode>>

MockReset(i) ==
    /\ backend = "mock" /\ status = "running"
    /\ LET c == Collect([loggers EXCEPT ![i] = MockResetValue(loggers[i])], heap)
       IN /\ loggers' = c.loggers
          /\ heap' = c.heap
    /\ last' = Call("Reset", i, "", "", <<>>, 0)
    /\ UNCHANGED ncaptured
    /\ UNCHANGED <<procs, backend, cfg, nwrites, lastWrite, status, exitCode, parent, chain>>

\* A caller holding e := m.LastEntry() or e := m.GetEntries()[k-1] assigns to a
\* field of e (or to an element of the returned slice): e is the caller's copy.
MockMutateCopy(i, k) ==
    /\ backend = "mock" /\ status = "running"
    /\ k \in 1..Len(GetEntries(i))
    /\ last' = Call("MutateCopy", i, "", "", <<>>, k)
    /\ UNCHANGED <<procs, backend, cfg, loggers, heap, ncaptured, nwrites, lastWrite, status,
                   exitCode, parent, chain>>

\* The same caller executes e.Attrs[key] = value: Attrs is the map the captured
\* entry refers to, and every entry copied from it refers to that map too.
MockMutateAttrs(i, k, key, value) ==
    /\ backend = "mock" /\ status = "running"
    /\ k \in 1..Len(GetEntries(i))
    /\ LET o == GetEntries(i)[k].obj
       IN heap' = [p \in 1..Len(heap) |->
                      [n \in 1..Len(heap[p]) |->
                          IF heap[p][n].obj = o
                          THEN [heap[p][n] EXCEPT !.Attrs = MapPut(@, key, value)]
                          ELSE heap[p][n]]]
    /\ last' = Call("MutateAttrs", i, "", "", <<StrV(key), value>>, k)
    /\ UNCHANGED <<procs, backend, cfg, loggers, ncaptured, nwrites, lastWrite, status,
                   exitCode, parent, chain>>

(***************************************************************************)
(* The capturing backend called from several goroutines.  Every MockLogger *)
(* value has its own mu (New, and the sync.RWMutex{} literal in With and   *)
(* WithGroup); a caller inside log holds mu of the logger it called, a     *)
(* caller inside a query holds it for reading.                             *)
(***************************************************************************)
\* m.mu of logger i is held for writing / for reading.
WriteHeld(i) == \E p \in Callers : procs[p].pc = "log" /\ procs[p].lg = i
ReadHeld(i) == \E p \in Callers : procs[p].pc = "query" /\ procs[p].lg = i

\* The array element the append of a caller inside log will store into when
\* the slice has spare capacity (ptr 0: append will allocate a new array).
TargetSlot(i) ==
    LET s == loggers[i].Entries
    IN IF s.len < s.cap THEN [ptr |-> s.ptr, n |-> s.len + 1] ELSE [ptr |-> 0, n |-> 0]

\* The records that take each field from one of two entries: what an element
\* may hold after two unsynchronised stores to it.
Mix(a, b) ==
    {[Level |-> l.Level, Message |-> m.Message, KeysAndValues |-> k.KeysAndValues,
      Attrs |-> t.Attrs, Group |-> g.Group, obj |-> t.obj] :
        l \in {a, b}, m \in {a, b}, k \in {a, b}, t \in {a, b}, g \in {a, b}}

\* Caller p enters log on logger i: m.mu.Lock().
LogLock(p, i, method, msg, kvs) ==
    /\ backend = "mock" /\ status = "running"
    /\ procs[p] = Idle
    /\ ~WriteHeld(i) /\ ~ReadHeld(i)
    /\ procs' = [procs EXCEPT ![p] = [pc |-> "log", lg |-> i, method |-> method,
                                      msg |-> msg, kvs |-> kvs, raced |-> FALSE]]
    /\ UNCHANGED <<backend, cfg, loggers, heap, ncaptured, nwrites, lastWrite, status,
                   exitCode, last, parent, chain>>

\* Caller p, inside log, copies the attrs, appends and leaves (deferred Unlock).
\* Another caller inside log whose append stores into the same array element
\* races with this one: the element then holds any mixture of the two entries.
LogAppend(p) ==
    /\ backend = "mock" /\ status = "running"
    /\ procs[p].pc = "log"
    /\ LET i == procs[p].lg
           slot == TargetSlot(i)
           own == MockEntry(loggers[i], MockLevel(procs[p].method), procs[p].msg, procs[p].kvs)
           racers == {q \in Callers \ {p} :
                         /\ procs[q].pc = "log"
                         /\ slot.ptr # 0
                         /\ TargetSlot(procs[q].lg) = slot}
           stored == IF procs[p].raced THEN Mix(own, heap[slot.ptr][slot.n]) ELSE {own}
       IN \E e \in stored :
            LET r == SliceAppend(heap, loggers[i].Entries, e)
                c == Collect([loggers EXCEPT ![i].Entries = r.slice], r.heap)
            IN /\ loggers' = c.loggers
               /\ heap' = c.heap
               /\ last' = Call("emit", i, procs[p].method, procs[p].msg, procs[p].kvs, 0)
               /\ procs' = [q \in Callers |->
                               IF q = p THEN Idle
                               ELSE IF q \in racers THEN [procs[q] EXCEPT !.raced = TRUE]
                               ELSE procs[q]]
    /\ ncaptured' = ncaptured + 1
    /\ UNCHANGED <<backend, cfg, nwrites, lastWrite, status, exitCode, parent, chain>>

\* Caller p enters a query (GetEntries, HasEntry, CountEntries, LastEntry) on
\* logger i: m.mu.RLock().
QueryLock(p, i) ==
    /\ backend = "mock" /\ status = "running"
    /\ procs[p] = Idle
    /\ ~WriteHeld(i)
    /\ procs' = [procs EXCEPT ![p] = [pc |-> "query", lg |-> i]]
    /\ UNCHANGED <<backend, cfg, loggers, heap, ncaptured, nwrites, lastWrite, status,
                   exitCode, last, parent, chain>>

\* Caller p has read the entries and leaves the query (deferred RUnlock).
QueryUnlock(p) ==
    /\ backend = "mock" /\ status = "running"
    /\ procs[p].pc = "query"
    /\ procs' = [procs EXCEPT ![p] = Idle]
    /\ last' = Call("query", procs[p].lg, "", "", <<>>, 0)
    /\ UNCHANGED <<backend, cfg, loggers, heap, ncaptured, nwrites, lastWrite, status,
                   exitCode, parent, chain>>

\* With on logger i while other callers are active: it holds m.mu.RLock().
LockedWith(i, key, value) == ~WriteHeld(i) /\ MockWith(i, key, value)

NoWrite == [none |-> TRUE]
NoCfg == [Level |-> "", Format |-> "", GroupFieldName |-> ""]

InitMock ==
    /\ backend = "mock"
    /\ cfg = NoCfg
    /\ loggers = <<MockNew>>
    /\ heap = <<>>
    /\ ncaptured = 0
    /\ nwrites = 0
    /\ lastWrite = NoWrite
    /\ status = "running"
    /\ exitCode = 0
    /\ last = Call("New", 0, "", "", <<>>, 1)
    /\ parent = <<0>>
    /\ chain = << <<>> >>
    /\ procs = NoProcs

(***************************************************************************)
(* Standard backend (slog/slog.go)                                         *)
(***************************************************************************)
LevelTrace == -8
LevelDebug == -4
LevelInfo == 0
LevelWarn == 4
LevelError == 8
LevelFatal == 10

\* strings.ToLower on the level strings the model configures.
ToLower(s) ==
    CASE s = "WARNING" -> "warning"
      [] s = "Fatal" -> "fatal"
      [] OTHER -> s

parseLevel(level) ==
    LET l == ToLower(level)
    IN CASE l = "trace" -> LevelTrace
         [] l = "debug" -> LevelDebug
         [] l = "info" -> LevelInfo
         [] l \in {"warn", "warning"} -> LevelWarn
         [] l = "error" -> LevelError
         [] l = "fatal" -> LevelFatal
         [] OTHER -> LevelInfo

\* The slog level each method of SlogLogger passes to log.
SlogLevel(method) ==
    CASE method = "Trace" -> LevelTrace
      [] method = "Debug" -> LevelDebug
      [] method = "Info"  -> LevelInfo
      [] method = "Warn"  -> LevelWarn
      [] method = "Error" -> LevelError
      [] method = "Fatal" -> LevelFatal

Attr(key, value) == [key |-> key, value |-> value]

\* New(cfg): the defaults, the handler chosen by Format, the SlogLogger.
SlogNew(c) ==
    LET format == IF c.Format = "" THEN "console" ELSE c.Format
        level == IF c.Level = "" THEN "info" ELSE c.Level
        gfn == IF c.GroupFieldName = "" THEN "_group" ELSE c.GroupFieldName
        handler ==
            IF format = "json"
            THEN [kind |-> "json", minLevel |-> parseLevel(level),
                  attrs |-> <<>>, groups |-> <<>>]
            ELSE [kind |-> "console", minLevel |-> parseLevel(level),
                  attrs |-> <<>>, groups |-> <<>>, groupFieldName |-> gfn]
    IN [handler |-> handler, groupFieldName |-> gfn]

\* An Enabled that lets every level through.
EnabledAlways(h, level) == TRUE

\* ConsoleHandler.Enabled, and slog.JSONHandler's Enabled with the same opts.Level.
Enabled(h, level) == level >= h.minLevel

\* slog.Level.String() for the levels used.
LevelString(n) ==
    CASE n = LevelTrace -> "DEBUG-4"
      [] n = LevelDebug -> "DEBUG"
      [] n = LevelInfo -> "INFO"
      [] n = LevelWarn -> "WARN"
      [] n = LevelError -> "ERROR"
      [] n = LevelFatal -> "ERROR+2"

\* slog.Value.String(): what ConsoleHandler prints for a value.
ValueString(v) ==
    CASE v.t = "str" -> v.v
      [] v.t = "int" -> ToString(v.v)
      [] v.t = "err" -> v.v
      [] v.t = "jerr" -> v.v
      [] v.t = "level" -> LevelString(v.v)

\* slog.Logger.Log's reading of keysAndValues (Record.Add): a string key takes
\* the next element as its value; a trailing string or a non-string element
\* becomes the value of a "!BADKEY" attribute and consumes only itself.
RECURSIVE ArgsToAttrs(_)
ArgsToAttrs(kvs) ==
    IF kvs = <<>> THEN <<>>
    ELSE IF IsString(kvs[1])
         THEN IF Len(kvs) = 1
              THEN <<Attr("!BADKEY", kvs[1])>>
              ELSE <<Attr(kvs[1].v, kvs[2])>> \o ArgsToAttrs(Tail(Tail(kvs)))
         ELSE <<Attr("!BADKEY", kvs[1])>> \o ArgsToAttrs(Tail(kvs))

\* HandlerOptions.ReplaceAttr as built by New: the type assertion
\* a.Value.Any().(slog.Level) panics on a "level" attribute of another type.
ReplaceAttrPanics(a) == a.key = "level" /\ a.value.t # "level"

\* A ReplaceAttr that leaves every attribute as it is.
ReplaceAttrKeep(a) == a

ReplaceAttr(a) ==
    IF a.key = "level"
    THEN IF a.value.v = LevelTrace THEN Attr("level", StrV("TRACE"))
         ELSE IF a.value.v = LevelFatal THEN Attr("level", StrV("FATAL"))
         ELSE a
    ELSE a

AnyPanics(attrs) == \E k \in 1..Len(attrs) : ReplaceAttrPanics(attrs[k])

\* The JSON encoding of an attribute value: errors and levels become strings,
\* except an error that is a json.Marshaler, which is encoded by its MarshalJSON.
JSONValue(v) ==
    CASE v.t = "err" -> StrV(v.v)
      [] v.t = "jerr" -> [t |-> "json", v |-> v.json]
      [] v.t = "level" -> StrV(LevelString(v.v))
      [] OTHER -> v

JSONField(a) == LET r == ReplaceAttr(a) IN Attr(r.key, JSONValue(r.value))

JSONFields(attrs) == [k \in 1..Len(attrs) |-> JSONField(attrs[k])]

\* A WithAttrs that binds the new attributes without copying the receiver's.
WithAttrsDropParent(h, attrs) ==
    IF h.kind = "json"
    THEN [h EXCEPT !.attrs = JSONFields(attrs)]
    ELSE [h EXCEPT !.attrs = attrs]

\* Handler.WithAttrs.  ConsoleHandler copies and appends; slog.JSONHandler
\* formats the attributes at once, through ReplaceAttr.
WithAttrs(h, attrs) ==
    IF h.kind = "json"
    THEN [h EXCEPT !.attrs = h.attrs \o JSONFields(attrs)]
    ELSE [h EXCEPT !.attrs = h.attrs \o attrs]

WithAttrsPanics(h, attrs) == h.kind = "json" /\ AnyPanics(attrs)

getLevelString(level) ==
    CASE level = LevelTrace -> "TRC"
      [] level = LevelDebug -> "DBG"
      [] level = LevelInfo -> "INF"
      [] level = LevelWarn -> "WRN"
      [] level = LevelError -> "ERR"
      [] level = LevelFatal -> "FTL"
      [] OTHER -> "???"

getLevelColor(level) ==
    CASE level = LevelTrace -> "magenta"
      [] level = LevelDebug -> "yellow"
      [] level = LevelInfo -> "green"
      [] level = LevelWarn -> "yellow"
      [] level \in {LevelError, LevelFatal} -> "red"
      [] OTHER -> "reset"

\* strings.Join(groups, ".")
RECURSIVE JoinDot(_)
JoinDot(groups) ==
    IF groups = <<>> THEN ""
    ELSE IF Len(groups) = 1 THEN groups[1]
    ELSE groups[1] \o "." \o JoinDot(Tail(groups))

\* An appendAttr that does not add the group's own name to the prefix.
RECURSIVE appendAttrFlat(_, _)
appendAttrFlat(attr, groups) ==
    LET key == IF Len(groups) > 0 THEN JoinDot(groups) \o "." \o attr.key ELSE attr.key
        RECURSIVE each(_)
        each(gs) == IF gs = <<>> THEN <<>>
                    ELSE appendAttrFlat(gs[1], groups) \o each(Tail(gs))
    IN IF attr.value.t = "group"
       THEN each(attr.value.v)
       ELSE <<[seg |-> "attr", key |-> key, text |-> ValueString(attr.value)]>>

\* appendAttr: the " key=value" segments one attribute adds to the line.
RECURSIVE appendAttr(_, _)
appendAttr(attr, groups) ==
    LET key == IF Len(groups) > 0 THEN JoinDot(groups) \o "." \o attr.key ELSE attr.key
        RECURSIVE each(_)
        each(gs) == IF gs = <<>> THEN <<>>
                    ELSE appendAttr(gs[1], Append(groups, attr.key)) \o each(Tail(gs))
    IN IF attr.value.t = "group"
       THEN each(attr.value.v)
       ELSE <<[seg |-> "attr", key |-> key, text |-> ValueString(attr.value)]>>

\* The first attribute named key, as Handle's two lookup loops find it.
RECURSIVE FirstNamed(_, _)
FirstNamed(attrs, key) ==
    IF attrs = <<>> THEN ""
    ELSE IF attrs[1].key = key THEN ValueString(attrs[1].value)
    ELSE FirstNamed(Tail(attrs), key)

RECURSIVE appendAttrs(_, _, _)
appendAttrs(attrs, groups, skip) ==
    IF attrs = <<>> THEN <<>>
    ELSE (IF attrs[1].key # skip THEN appendAttr(attrs[1], groups) ELSE <<>>)
         \o appendAttrs(Tail(attrs), groups, skip)

\* A Handle that renders the call's attributes before the handler's.
ConsoleLineCallFirst(h, r) ==
    LET hgroup == FirstNamed(h.attrs, h.groupFieldName)
        group == IF hgroup = "" THEN FirstNamed(r.attrs, h.groupFieldName) ELSE hgroup
    IN <<[seg |-> "time"],
         [seg |-> "level", text |-> getLevelString(r.level), color |-> getLevelColor(r.level)]>>
       \o (IF group # "" THEN <<[seg |-> "group", text |-> group]>> ELSE <<>>)
       \o <<[seg |-> "msg", text |-> r.msg]>>
       \o appendAttrs(r.attrs, h.groups, h.groupFieldName)
       \o appendAttrs(h.attrs, h.groups, h.groupFieldName)
       \o <<[seg |-> "newline"]>>

\* ConsoleHandler.Handle: the line handed to writer.Write, as its segments.
ConsoleLine(h, r) ==
    LET hgroup == FirstNamed(h.attrs, h.groupFieldName)
        group == IF hgroup = "" THEN FirstNamed(r.attrs, h.groupFieldName) ELSE hgroup
    IN <<[seg |-> "time"],
         [seg |-> "level", text |-> getLevelString(r.level), color |-> getLevelColor(r.level)]>>
       \o (IF group # "" THEN <<[seg |-> "group", text |-> group]>> ELSE <<>>)
       \o <<[seg |-> "msg", text |-> r.msg]>>
       \o appendAttrs(h.attrs, h.groups, h.groupFieldName)
       \o appendAttrs(r.attrs, h.groups, h.groupFieldName)
       \o <<[seg |-> "newline"]>>

\* slog.JSONHandler.Handle behind JSONHandler.Handle: the object's fields in order.
JSONLine(h, r) ==
    <<Attr("time", [t |-> "time"]),
      JSONField(Attr("level", LvlV(r.level))),
      Attr("msg", StrV(r.msg))>>
    \o h.attrs \o JSONFields(r.attrs)

HandlePanics(h, r) == h.kind = "json" /\ AnyPanics(r.attrs)

Handle(h, r) ==
    IF h.kind = "json"
    THEN [format |-> "json", fields |-> JSONLine(h, r)]
    ELSE [format |-> "console", line |-> ConsoleLine(h, r)]

\* A WithGroup that always binds the default field name.
SlogWithGroupDefault(l, group) == Attr("_group", StrV(group))

\* SlogLogger.With / WithError / WithGroup: the attribute handed to slog.Logger.With.
SlogWithAttr(l, key, value) == Attr(key, value)
SlogWithErrorAttr(l, err) == Attr("error", err)
SlogWithGroupAttr(l, group) == Attr(l.groupFieldName, StrV(group))

\* Trace .. Fatal on slog logger i; werr says whether the Write call fails.
\* After Fatal's log call returns, os.Exit(1) is pending (status "fatal").
SlogEmit(i, method, msg, kvs, werr) ==
    /\ backend = "slog" /\ status = "running"
    /\ LET h == loggers[i].handler
           r == [level |-> SlogLevel(method), msg |-> msg, attrs |-> ArgsToAttrs(kvs)]
           call == Call("emit", i, method, msg, kvs, 0)
       IN IF ~Enabled(h, r.level)
          THEN /\ UNCHANGED <<nwrites, lastWrite>>
               /\ status' = IF method = "Fatal" THEN "fatal" ELSE status
               /\ last' = call
          ELSE IF HandlePanics(h, r)
          THEN /\ UNCHANGED <<nwrites, lastWrite>>
               /\ status' = "panicked"
               /\ last' = call
          ELSE /\ nwrites' = nwrites + 1
               /\ lastWrite' = [data |-> Handle(h, r), err |-> werr]
               /\ status' = IF method = "Fatal" THEN "fatal" ELSE status
               /\ last' = [call EXCEPT !.writes = 1]
    /\ UNCHANGED <<procs, backend, cfg, loggers, heap, ncaptured, exitCode, parent, chain>>

\* The os.Exit(1) that ends SlogLogger.Fatal.
SlogExit ==
    /\ backend = "slog" /\ status = "fatal"
    /\ status' = "exited"
    /\ exitCode' = 1
    /\ UNCHANGED <<procs, backend, cfg, loggers, heap, ncaptured, nwrites, lastWrite, last, parent, chain>>

\* A With* call on slog logger i binding attribute a.
SlogDerive(i, a, call) ==
    /\ backend = "slog" /\ status = "running"
    /\ IF WithAttrsPanics(loggers[i].handler, <<a>>)
       THEN /\ status' = "panicked"
            /\ last' = Call(call.op, i, "", "", <<>>, 0)
            /\ UNCHANGED <<loggers, parent, chain>>
       ELSE /\ Derive(i, [handler |-> WithAttrs(loggers[i].handler, <<a>>),
                          groupFieldName |-> loggers[i].groupFieldName], call)
            /\ UNCHANGED status
    /\ UNCHANGED <<procs, backend, cfg, heap, ncaptured, nwrites, lastWrite, exitCode>>

SlogWith(i, key, value) ==
    SlogDerive(i, SlogWithAttr(loggers[i], key, value),
               [op |-> "With", key |-> key, value |-> value])

SlogWithError(i, err) ==
    SlogDerive(i, SlogWithErrorAttr(loggers[i], err),
               [op |-> "WithError", key |-> "error", value |-> err])

SlogWithGroup(i, group) ==
    SlogDerive(i, SlogWithGroupAttr(loggers[i], group),
               [op |-> "WithGroup", key |-> "", value |-> StrV(group)])

InitSlog(levels, formats, gfns) ==
    /\ backend = "slog"
    /\ cfg \in [Level : levels, Format : formats, GroupFieldName : gfns]
    /\ loggers = <<SlogNew(cfg)>>
    /\ heap = <<>>
    /\ ncaptured = 0
    /\ nwrites = 0
    /\ lastWrite = NoWrite
    /\ status = "running"
    /\ exitCode = 0
    /\ last = Call("New", 0, "", "", <<>>, 1)
    /\ parent = <<0>>
    /\ chain = << <<>> >>
    /\ procs = NoProcs

(***************************************************************************)
(* Third-party backend (zerolog wrapper)                                   *)
(***************************************************************************)
ZTraceLevel == -1
ZDebugLevel == 0
ZInfoLevel == 1
ZWarnLevel == 2
ZErrorLevel == 3
ZFatalLevel == 4
ZPanicLevel == 5

\* parseLevel of the zerolog backend.
ZerologParseLevel(level) ==
    LET l == ToLower(level)
    IN CASE l = "trace" -> ZTraceLevel
         [] l = "debug" -> ZDebugLevel
         [] l = "info" -> ZInfoLevel
         [] l \in {"warn", "warning"} -> ZWarnLevel
         [] l = "error" -> ZErrorLevel
         [] l = "fatal" -> ZFatalLevel
         [] l = "panic" -> ZPanicLevel
         [] OTHER -> ZInfoLevel

\* The methods ZerologLogger has, and the level of the event each one opens.
ZerologMethods == {"Trace", "Debug", "Info", "Warn", "Error"}

ZerologLevel(method) ==
    CASE method = "Trace" -> ZTraceLevel
      [] method = "Debug" -> ZDebugLevel
      [] method = "Info"  -> ZInfoLevel
      [] method = "Warn"  -> ZWarnLevel
      [] method = "Error" -> ZErrorLevel

\* zerolog's name of a level, the value of the event's "level" field.
ZerologLevelName(n) ==
    CASE n = ZTraceLevel -> "trace"
      [] n = ZDebugLevel -> "debug"
      [] n = ZInfoLevel -> "info"
      [] n = ZWarnLevel -> "warn"
      [] n = ZErrorLevel -> "error"

\* New(cfg) of the zerolog backend: the defaults, the output chosen by Format
\* (a ConsoleWriter for "console", the raw JSON writer otherwise), the level.
ZerologNew(c) ==
    LET format == IF c.Format = "" THEN "console" ELSE c.Format
        level == IF c.Level = "" THEN "info" ELSE c.Level
    IN [kind |-> IF format = "console" THEN "console" ELSE "json",
        level |-> ZerologParseLevel(level),
        context |-> <<>>]

\* Event.Interface / Context.Interface: a value as the event encodes it
\* (an error value handed to Interface goes through json.Marshal).
ZerologValue(v) ==
    CASE v.t = "err" -> [t |-> "json", v |-> "{}"]
      [] v.t = "jerr" -> [t |-> "json", v |-> v.json]
      [] OTHER -> v

\* ZerologLogger.log: the fields the loop adds, stepping through the arguments
\* two at a time; a trailing element and a pair with a non-string key add nothing.
RECURSIVE ZerologFields(_)
ZerologFields(kvs) ==
    IF Len(kvs) < 2 THEN <<>>
    ELSE (IF IsString(kvs[1])
          THEN <<Attr(kvs[1].v, ZerologValue(kvs[2]))>>
          ELSE <<>>)
         \o ZerologFields(Tail(Tail(kvs)))

\* The event handed to the output: level, context fields, the call's fields,
\* the timestamp added by the hook, the message (left out when empty).
ZerologEvent(l, level, msg, kvs) ==
    [format |-> l.kind,
     fields |-> <<Attr("level", StrV(ZerologLevelName(level)))>>
                \o l.context \o ZerologFields(kvs)
                \o <<Attr("time", [t |-> "time"])>>
                \o (IF msg = "" THEN <<>> ELSE <<Attr("message", StrV(msg))>>)]

\* With / WithError / WithGroup of the zerolog backend: the logger returned.
ZerologWithValue(l, key, value) ==
    [l EXCEPT !.context = l.context \o <<Attr(key, ZerologValue(value))>>]

\* Context.Err(err): the field "error" holding err.Error().
ZerologWithErrorValue(l, err) ==
    [l EXCEPT !.context = l.context \o <<Attr("error", StrV(err.v))>>]

ZerologWithGroupValue(l, group) ==
    [l EXCEPT !.context = l.context \o <<Attr("group", StrV(group))>>]

\* Trace .. Error on zerolog logger i: a disabled level gives a nil event and
\* nothing is written; otherwise Msg writes the event in one Write call.
ZerologEmit(i, method, msg, kvs, werr) ==
    /\ backend = "zerolog" /\ status = "running"
    /\ LET l == loggers[i]
           call == Call("emit", i, method, msg, kvs, 0)
       IN IF ZerologLevel(method) < l.level
          THEN /\ UNCHANGED <<nwrites, lastWrite>>
               /\ last' = call
          ELSE /\ nwrites' = nwrites + 1
               /\ lastWrite' = [data |-> ZerologEvent(l, ZerologLevel(method), msg, kvs),
                                err |-> werr]
               /\ last' = [call EXCEPT !.writes = 1]
    /\ UNCHANGED <<procs, backend, cfg, loggers, heap, ncaptured, status, exitCode, parent, chain>>

ZerologWith(i, key, value) ==
    /\ backend = "zerolog" /\ status = "running"
    /\ Derive(i, ZerologWithValue(loggers[i], key, value),
              [op |-> "With", key |-> key, value |-> value])
    /\ UNCHANGED <<procs, backend, cfg, heap, ncaptured, nwrites, lastWrite, status, exitCode>>

ZerologWithError(i, err) ==
    /\ backend = "zerolog" /\ status = "running"
    /\ Derive(i, ZerologWithErrorValue(loggers[i], err),
              [op |-> "WithError", key |-> "error", value |-> err])
    /\ UNCHANGED <<procs, backend, cfg, heap, ncaptured, nwrites, lastWrite, status, exitCode>>

ZerologWithGroup(i, group) ==
    /\ backend = "zerolog" /\ status = "running"
    /\ Derive(i, ZerologWithGroupValue(loggers[i], group),
              [op |-> "WithGroup", key |-> "", value |-> StrV(group)])
    /\ UNCHANGED <<procs, backend, cfg, heap, ncaptured, nwrites, lastWrite, status, exitCode>>

InitZerolog(levels, formats) ==
    /\ backend = "zerolog"
    /\ cfg \in [Level : levels, Format : formats, GroupFieldName : {""}]
    /\ loggers = <<ZerologNew(cfg)>>
    /\ heap = <<>>
    /\ ncaptured = 0
    /\ nwrites = 0
    /\ lastWrite = NoWrite
    /\ status = "running"
    /\ exitCode = 0
    /\ last = Call("New", 0, "", "", <<>>, 1)
    /\ parent = <<0>>
    /\ chain = << <<>> >>
    /\ procs = NoProcs

(***************************************************************************)
(* Null backend (NullLogger)                                               *)
(***************************************************************************)
NullLogger == [kind |-> "null"]

\* A null logger whose Fatal stops the program.
NullFatalExits(method, st) == IF method = "Fatal" THEN "exited" ELSE st

\* The process status after an emission method of NullLogger (Fatal included).
NullEmitStatus(method, st) == st

\* The logger a With* method of NullLogger returns.
NullWithValue(n, call) == n

NullEmit(i, method, msg, kvs) ==
    /\ backend = "null" /\ status = "running"
    /\ status' = NullEmitStatus(method, status)
    /\ last' = Call("emit", i, method, msg, kvs, 0)
    /\ UNCHANGED <<procs, backend, cfg, loggers, heap, ncaptured, nwrites, lastWrite, exitCode, parent, chain>>

\* With, WithError or WithGroup on null logger i.
NullDerive(i, call) ==
    /\ backend = "null" /\ status = "running"
    /\ LET nl == NullWithValue(loggers[i], call)
       IN IF nl = loggers[i]
          THEN /\ last' = Call(call.op, i, "", "", <<call.value>>, i)
               /\ UNCHANGED <<loggers, parent, chain>>
          ELSE /\ loggers' = Append(loggers, nl)
               /\ parent' = Append(parent, i)
               /\ chain' = Append(chain, Append(chain[i], call))
               /\ last' = Call(call.op, i, "", "", <<call.value>>, Len(loggers) + 1)
    /\ UNCHANGED <<procs, backend, cfg, heap, ncaptured, nwrites, lastWrite, status, exitCode>>

NullWith(i, key, value) == NullDerive(i, [op |-> "With", key |-> key, value |-> value])
NullWithError(i, err) == NullDerive(i, [op |-> "WithError", key |-> "error", value |-> err])
NullWithGroup(i, group) == NullDerive(i, [op |-> "WithGroup", key |-> "", value |-> StrV(group)])

InitNull ==
    /\ backend = "null"
    /\ cfg = NoCfg
    /\ loggers = <<NullLogger>>
    /\ heap = <<>>
    /\ ncaptured = 0
    /\ nwrites = 0
    /\ lastWrite = NoWrite
    /\ status = "running"
    /\ exitCode = 0
    /\ last = Call("New", 0, "", "", <<>>, 1)
    /\ parent = <<0>>
    /\ chain = << <<>> >>
    /\ procs = NoProcs

(***************************************************************************)
(* Inputs and specifications                                               *)
(***************************************************************************)
\* Key/value sequences handed to the emission methods: none, a pair, an
\* unpaired trailing key, a non-string key, a non-string key before a pair,
\* and keys that coincide with the built-in "level" field.
SlogKvs ==
    {<<>>,
     <<StrV("port"), IntV(8080)>>,
     <<StrV("onlykey")>>,
     <<IntV(7), StrV("v")>>,
     <<IntV(7), StrV("v"), StrV("k"), IntV(1)>>,
     <<StrV("level"), StrV("high")>>,
     <<StrV("level"), LvlV(LevelTrace)>>}

SlogWithInputs == WithInputs \cup {<<"level", StrV("high")>>}

LevelStrings ==
    {"", "trace", "debug", "info", "warn", "WARNING", "error", "fatal", "Fatal", "verbose"}

\* Emissions on the capturing backend.
MockEmits(maxCaptured, methods, msgs) ==
    \E i \in Ids, m \in methods, msg \in msgs, kvs \in MockKvs :
        ncaptured < maxCaptured /\ MockEmit(i, m, msg, kvs)

\* Derivations on the capturing backend.
MockDerives(maxLoggers, groups) ==
    \/ \E i \in Ids, kv \in WithInputs :
          Len(loggers) < maxLoggers /\ MockWith(i, kv[1], kv[2])
    \/ \E i \in Ids, e \in Errs :
          Len(loggers) < maxLoggers /\ MockWithError(i, e)
    \/ \E i \in Ids, g \in groups :
          Len(loggers) < maxLoggers /\ MockWithGroup(i, g)

\* Emissions on the standard backend.
SlogEmits(maxWrites, methods, msgs, kvss) ==
    \E i \in Ids, m \in methods, msg \in msgs, kvs \in kvss, werr \in BOOLEAN :
        nwrites < maxWrites /\ SlogEmit(i, m, msg, kvs, werr)

\* Derivations on the standard backend.
SlogDerives(maxLoggers, inputs, groups) ==
    \/ \E i \in Ids, kv \in inputs :
          Len(loggers) < maxLoggers /\ SlogWith(i, kv[1], kv[2])
    \/ \E i \in Ids, e \in Errs :
          Len(loggers) < maxLoggers /\ SlogWithError(i, e)
    \/ \E i \in Ids, g \in groups :
          Len(loggers) < maxLoggers /\ SlogWithGroup(i, g)

\* Emissions on the zerolog backend.
ZerologEmits(maxWrites, methods, msgs, kvss) ==
    \E i \in Ids, m \in methods, msg \in msgs, kvs \in kvss, werr \in BOOLEAN :
        nwrites < maxWrites /\ ZerologEmit(i, m, msg, kvs, werr)

\* Derivations on the zerolog backend.
ZerologDerives(maxLoggers, inputs, errs, groups) ==
    \/ \E i \in Ids, kv \in inputs :
          Len(loggers) < maxLoggers /\ ZerologWith(i, kv[1], kv[2])
    \/ \E i \in Ids, e \in errs :
          Len(loggers) < maxLoggers /\ ZerologWithError(i, e)
    \/ \E i \in Ids, g \in groups :
          Len(loggers) < maxLoggers /\ ZerologWithGroup(i, g)

\* Calls on the null backend.
NullCalls(msgs, kvss) ==
    \/ \E i \in Ids, m \in Methods, msg \in msgs, kvs \in kvss : NullEmit(i, m, msg, kvs)
    \/ \E i \in Ids, kv \in SlogWithInputs : NullWith(i, kv[1], kv[2])
    \/ \E i \in Ids, e \in Errs : NullWithError(i, e)
    \/ \E i \in Ids, g \in Groups : NullWithGroup(i, g)

\* A test driving one capturing logger: every method, two messages, Reset.
NextQueries ==
    \/ MockEmits(MaxEntries, Methods, Msgs)
    \/ \E i \in Ids : MockReset(i)

SpecQueries == InitMock /\ [][NextQueries]_vars

\* Trees of derived loggers on the capturing and the standard backend.
InitContext == InitMock \/ InitSlog({"info"}, {"console", "json"}, {""})

NextContext ==
    \/ MockEmits(MaxTreeEntries, {"Info"}, {"x"})
    \/ MockDerives(MaxLoggers, {"g1"})
    \/ SlogEmits(MaxWrites, {"Info"}, {"x"}, {<<>>, <<StrV("port"), IntV(8080)>>})
    \/ SlogDerives(MaxLoggers, WithInputs, {"g1"})

SpecContext == InitContext /\ [][NextContext]_vars

\* The standard backend under every configuration and input.
NextSlog ==
    \/ SlogEmits(MaxSlogWrites, Methods, {"x"}, SlogKvs)
    \/ SlogDerives(MaxSlogLoggers, SlogWithInputs, Groups)
    \/ SlogExit

SpecSlog == InitSlog(LevelStrings, {"console", "json"}, {""}) /\ [][NextSlog]_vars

\* The null backend.
SpecNull == InitNull /\ [][NullCalls(Msgs \cup {""}, SlogKvs)]_vars

\* Construction: New of the standard and of the zerolog backend with every
\* level and format string, then emissions without key/value arguments.
FormatStrings == {"", "console", "json", "xml", "JSON"}

InitConfig ==
    \/ InitSlog(LevelStrings, FormatStrings, {""})
    \/ InitZerolog(LevelStrings \cup {"panic"}, FormatStrings)

NextConfig ==
    \/ SlogEmits(MaxConfigWrites, Methods, {"x"}, {<<>>})
    \/ SlogExit
    \/ ZerologEmits(MaxConfigWrites, ZerologMethods, {"x"}, {<<>>})

SpecConfig == InitConfig /\ [][NextConfig]_vars

\* The capturing backend with a parent and a derived logger that captures
\* enough entries for the slices to have spare capacity.
NextShared ==
    \/ MockEmits(MaxSharedEntries, {"Info"}, {"x"})
    \/ MockDerives(MaxSharedLoggers, {"g1"})
    \/ \E i \in Ids : MockReset(i)

SpecShared == InitMock /\ [][NextShared]_vars

\* The capturing backend with callers that modify what the queries returned.
NextCopies ==
    \/ MockEmits(MaxCopyEntries, {"Info", "Error"}, {"x"})
    \/ MockDerives(MaxCopyLoggers, {"g1"})
    \/ \E i \in Ids : MockReset(i)
    \/ \E i \in Ids, k \in 1..MaxCopyEntries : MockMutateCopy(i, k)
    \/ \E i \in Ids, k \in 1..MaxCopyEntries : MockMutateAttrs(i, k, "k", IntV(9))

SpecCopies == InitMock /\ [][NextCopies]_vars

\* The capturing backend called concurrently by the callers of Callers.
NextLocking ==
    \/ \E p \in Callers, i \in Ids :
          /\ ncaptured + Cardinality({q \in Callers : procs[q].pc = "log"}) < MaxLockEntries
          /\ LogLock(p, i, "Info", "x", <<>>)
    \/ \E p \in Callers : LogAppend(p)
    \/ \E p \in Callers, i \in Ids : QueryLock(p, i)
    \/ \E p \in Callers : QueryUnlock(p)
    \/ \E i \in Ids : Len(loggers) < MaxLockLoggers /\ LockedWith(i, "a", IntV(1))

SpecLocking == InitMock /\ [][NextLocking]_vars

\* The group field of the standard backend in json format: default and custom
\* field name, WithGroup mixed with With and WithError, Info emissions.
GroupFieldNames == {"", "@group"}

NextGroupField ==
    \/ SlogEmits(MaxGroupWrites, {"Info"}, {"x"}, {<<>>, <<StrV("port"), IntV(8080)>>})
    \/ SlogDerives(MaxGroupLoggers, {<<"a", IntV(1)>>}, Groups)

SpecGroupField == InitSlog({"info"}, {"json"}, GroupFieldNames) /\ [][NextGroupField]_vars

(***************************************************************************)
(* Observations used by the properties                                     *)
(***************************************************************************)
\* The loggers that logger i was (transitively) derived from.
RECURSIVE Ancestors(_)
Ancestors(i) == IF parent[i] = 0 THEN {} ELSE {parent[i]} \cup Ancestors(parent[i])

\* The other loggers derived from the parent of logger i.
Siblings(i) == {j \in 1..Len(parent) : j # i /\ parent[i] # 0 /\ parent[j] = parent[i]}

\* The attribute mapping bound by a chain of With / WithError calls.
RECURSIVE ChainMap(_)
ChainMap(ch) ==
    IF ch = <<>> THEN EmptyMap
    ELSE LET c == ch[Len(ch)]
             m == ChainMap(SubSeq(ch, 1, Len(ch) - 1))
         IN CASE c.op = "With" -> MapPut(m, c.key, c.value)
              [] c.op = "WithError" -> MapPut(m, "error", StrV(c.value.v))
              [] OTHER -> m

\* The key and printed value of each attribute bound by a chain, in binding order.
RECURSIVE ChainPairs(_)
ChainPairs(ch) ==
    IF ch = <<>> THEN <<>>
    ELSE (IF ch[1].op \in {"With", "WithError"}
          THEN << <<ch[1].key, ValueString(ch[1].value)>> >>
          ELSE <<>>)
         \o ChainPairs(Tail(ch))

\* The key and printed value of each pair of a key/value sequence whose key is
\* a string; an unpaired trailing element and a pair with another key add nothing.
RECURSIVE ClaimPairs(_)
ClaimPairs(kvs) ==
    IF Len(kvs) < 2 THEN <<>>
    ELSE (IF IsString(kvs[1])
          THEN << <<kvs[1].v, ValueString(kvs[2])>> >>
          ELSE <<>>)
         \o ClaimPairs(Tail(Tail(kvs)))

\* The attributes a written record shows, as <<key, printed value>>, in order
\* (the group field apart).
ShownAttrs(data, gfn) ==
    IF data.format = "console"
    THEN LET segs == SelectSeq(data.line, LAMBDA x : x.seg = "attr")
         IN [k \in 1..Len(segs) |-> <<segs[k].key, segs[k].text>>]
    ELSE LET fs == SelectSeq(SubSeq(data.fields, 4, Len(data.fields)),
                             LAMBDA a : a.key # gfn)
         IN [k \in 1..Len(fs) |-> <<fs[k].key, ValueString(fs[k].value)>>]

\* The message a written record shows.
ShownMsg(data) ==
    IF data.format = "console"
    THEN SelectSeq(data.line, LAMBDA x : x.seg = "msg")[1].text
    ELSE data.fields[3].value.v

\* The call in `last` was an emission that the logger's minimum level lets through.
EmittedEnabled ==
    /\ backend = "slog"
    /\ last.op = "emit"
    /\ SlogLevel(last.method) >= loggers[last.lg].handler.minLevel

\* What a logger value carries besides its captured entries.
Context(l) ==
    IF backend = "mock" THEN [attrs |-> l.attrs, group |-> l.group]
    ELSE IF backend = "slog" THEN [attrs |-> l.handler.attrs, gfn |-> l.groupFieldName]
    ELSE l

(***************************************************************************)
(* Properties                                                              *)
(***************************************************************************)

\* C1: on the capturing backend an entry emitted through a derived logger is
\* observable through every logger it was derived from and through its
\* siblings (one shared captured sequence): right after the emission, HasEntry
\* is true on each of them, CountEntries counts it and LastEntry and the
\* GetEntries snapshot include it.
C1_DerivedEmissionSeenByAncestors ==
    (backend = "mock" /\ last.op = "emit") =>
        \A p \in Ancestors(last.lg) \cup Siblings(last.lg) :
            /\ HasEntry(p, MockLevel(last.method), last.msg)
            /\ CountEntries(p, MockLevel(last.method)) >= 1
            /\ LastEntry(p) = LastEntry(last.lg)
            /\ GetEntries(p) = GetEntries(last.lg)

\* C2 (state part): right after an emission at level L with message m,
\* HasEntry(L, m) is true; right after Reset (and after New) every
\* CountEntries is 0, HasEntry is false for all arguments and LastEntry is nil.
C2_AfterCall ==
    /\ last.op = "emit" => HasEntry(last.lg, MockLevel(last.method), last.msg)
    /\ last.op \in {"Reset", "New"} =>
          LET i == IF last.op = "New" THEN last.ret ELSE last.lg
          IN /\ \A L \in MockLevels : CountEntries(i, L) = 0
             /\ \A L \in MockLevels, m \in Msgs : ~HasEntry(i, L, m)
             /\ LastEntry(i) = Nil

\* C2 (step part): an emission at level L through a logger raises that logger's
\* CountEntries(L) by one and leaves its count at every other level unchanged.
C2_CountStep ==
    \A i \in 1..Len(loggers), L \in MockLevels :
        (last'.op = "emit" /\ last'.lg = i) =>
            CountEntries(i, L)' =
                CountEntries(i, L) + (IF L = MockLevel(last'.method) THEN 1 ELSE 0)

\* C2: capturing backend queries.  For any sequence of emissions (Trace..Fatal)
\* and Reset calls on a capturing logger, HasEntry(L, m) holds right after an
\* emission at L with message m, CountEntries(L) is the number of emissions at L
\* since the last Reset (0 after New and after Reset, one more at L and no other
\* level with each emission), and after Reset HasEntry is false and LastEntry nil.
C2_Queries == []C2_AfterCall /\ [][C2_CountStep]_vars

\* A capturing logger that was reset after its first entry and then captured
\* two "error" entries.
C2_Witness ==
    /\ backend = "mock"
    /\ last.op = "emit"
    /\ ncaptured = 3
    /\ Len(GetEntries(1)) = 2
    /\ CountEntries(1, "error") = 2

\* C3 (state part): every logger carries exactly the attributes bound along its
\* own derivation chain, and each emission shows exactly those (followed, on the
\* standard backend, by the call's own pairs): nothing of a sibling or a child.
C3_CarriesOwnChain ==
    /\ backend = "mock" =>
          /\ \A i \in Ids : loggers[i].attrs = ChainMap(chain[i])
          /\ last.op = "emit" => LastEntry(last.lg).Attrs = ChainMap(chain[last.lg])
    /\ (backend = "slog" /\ last.op = "emit" /\ last.writes = 1) =>
          ShownAttrs(lastWrite.data, loggers[last.lg].groupFieldName)
              = ChainPairs(chain[last.lg]) \o ClaimPairs(last.kvs)

\* C3 (step part): no call changes the bound attributes or the group of a
\* logger that already exists.
C3_ContextUnchanged ==
    \A i \in 1..Len(loggers) : Context(loggers'[i]) = Context(loggers[i])

\* C3: context immutability and sibling isolation.  With, WithError and
\* WithGroup never change the receiver's bound attributes or group, nor those of
\* a logger derived earlier; each emission carries exactly the attributes bound
\* along the emitting logger's own derivation chain, on the capturing and the
\* standard backend.
C3_ContextImmutable == []C3_CarriesOwnChain /\ [][C3_ContextUnchanged]_vars

\* Two siblings derived from the root by With("a", 1) and With("b", 2) have both
\* written a record on the standard backend.
C3_Witness ==
    /\ backend = "slog"
    /\ Len(loggers) = 3
    /\ parent = <<0, 1, 1>>
    /\ chain[2] = <<[op |-> "With", key |-> "a", value |-> IntV(1)]>>
    /\ chain[3] = <<[op |-> "With", key |-> "b", value |-> IntV(2)]>>
    /\ last.op = "emit" /\ last.lg = 3
    /\ nwrites = 2

\* C4: level filtering on the standard backend.  An emission at level L through
\* the root or any derived logger makes exactly one write if L >= M, the
\* configured minimum level, and none if L < M.
C4_LevelFiltering ==
    (backend = "slog" /\ last.op = "emit") =>
        last.writes = (IF SlogLevel(last.method) >= loggers[last.lg].handler.minLevel
                       THEN 1 ELSE 0)

\* In every run that does not panic the filtering rule of C4 holds.
FilteringWithoutPanic == status # "panicked" => C4_LevelFiltering

\* C5: an Error emission is never suppressed, whatever level string the
\* standard backend was configured with (stated for calls without key/value
\* arguments).
C5_ErrorNeverSuppressed ==
    (backend = "slog" /\ last.op = "emit" /\ last.method = "Error" /\ last.kvs = <<>>) =>
        last.writes = 1

\* C6: Fatal on the standard backend.  Once a Fatal call has stopped the
\* program, the fatal record has been handed to the sink in exactly one write,
\* and the process ends through os.Exit(1), never before that write.
C6_FatalWritesThenExits ==
    (backend = "slog" /\ last.op = "emit" /\ last.method = "Fatal" /\ status # "running") =>
        /\ last.writes = 1
        /\ ShownMsg(lastWrite.data) = last.msg
        /\ status \in {"fatal", "exited"}
        /\ status = "exited" => exitCode = 1

\* In every run that does not panic the ordering of C6 holds, and nothing is
\* written once the program has stopped running.
FatalWithoutPanic == status # "panicked" => C6_FatalWritesThenExits
NoWriteAfterStop == [][status # "running" => nwrites' = nwrites]_vars

\* C7: the null backend.  Whatever is called on the null logger, with whatever
\* arguments, nothing is written or captured, no state changes, the process
\* keeps running, and every With* call returns a logger equal to its receiver.
C7_NullNoEffect ==
    backend = "null" =>
        /\ nwrites = 0 /\ lastWrite = NoWrite
        /\ heap = <<>> /\ ncaptured = 0
        /\ status = "running" /\ exitCode = 0
        /\ loggers = <<NullLogger>>
        /\ last.op \in {"With", "WithError", "WithGroup"} =>
              /\ last.ret = last.lg
              /\ loggers[last.ret] = loggers[last.lg]

\* Fatal was called on the null logger with an unpaired trailing key.
C7_Witness ==
    /\ backend = "null"
    /\ last.op = "emit" /\ last.method = "Fatal"
    /\ last.kvs = <<StrV("onlykey")>>

\* C8: an emission whose key/value sequence has odd length (string keys, an
\* unpaired trailing key) writes one record with its message and nothing
\* derived from the unpaired element: through the root logger, Info("x",
\* "onlykey") shows no attribute.
C8_OddLengthNoAttribute ==
    (/\ EmittedEnabled
     /\ chain[last.lg] = <<>>
     /\ Len(last.kvs) % 2 = 1
     /\ \A k \in 1..Len(last.kvs) : k % 2 = 1 => IsString(last.kvs[k])) =>
        /\ last.writes = 1
        /\ ShownMsg(lastWrite.data) = last.msg
        /\ ShownAttrs(lastWrite.data, loggers[last.lg].groupFieldName) = ClaimPairs(last.kvs)

\* C9: a pair whose key is not a string is skipped: the record written shows
\* exactly the remaining string-keyed pairs, taken at their original pair
\* positions and in call order, and the message.
C9_NonStringKeySkipped ==
    (/\ EmittedEnabled
     /\ chain[last.lg] = <<>>
     /\ Len(last.kvs) % 2 = 0
     /\ \E k \in 1..Len(last.kvs) : k % 2 = 1 /\ ~IsString(last.kvs[k])) =>
        /\ last.writes = 1
        /\ ShownMsg(lastWrite.data) = last.msg
        /\ ShownAttrs(lastWrite.data, loggers[last.lg].groupFieldName) = ClaimPairs(last.kvs)

\* C10: no emission and no derivation on the standard backend panics, in
\* console or json format, whatever the keys and values (keys such as "level"
\* included), and an enabled emission still writes its record.
C10_NeverPanics ==
    /\ status # "panicked"
    /\ EmittedEnabled => last.writes = 1

\* The output format a logger was built with.
OutputFormat(l) == IF backend = "slog" THEN l.handler.kind ELSE l.kind

\* C11: constructing the standard backend with a level string outside the
\* documented set {trace, debug, info, warn, error} (the empty string included)
\* yields minimum level info: Info, Warn, Error and Fatal are written, Trace
\* and Debug are suppressed.
C11_UnknownLevelIsInfo ==
    (backend = "slog" /\ cfg.Level \notin {"trace", "debug", "info", "warn", "error"}) =>
        /\ loggers[1].handler.minLevel = LevelInfo
        /\ last.op = "emit" =>
              last.writes = (IF last.method \in {"Info", "Warn", "Error", "Fatal"}
                             THEN 1 ELSE 0)

\* C12: in every backend that takes a format, constructing a logger with a
\* format string other than "console" or "json" (the empty string included)
\* selects the console format, and its records are written in that format.
C12_UnknownFormatIsConsole ==
    (backend \in {"slog", "zerolog"} /\ cfg.Format \notin {"console", "json"}) =>
        /\ OutputFormat(loggers[1]) = "console"
        /\ lastWrite # NoWrite => lastWrite.data.format = "console"

\* On the standard backend the format falls back to console as C12 says.
FormatFallbackSlog == backend = "slog" => C12_UnknownFormatIsConsole

\* The names given to the WithGroup calls of a chain, in order.
RECURSIVE GroupPath(_)
GroupPath(ch) ==
    IF ch = <<>> THEN <<>>
    ELSE (IF ch[1].op = "WithGroup" THEN <<ch[1].value.v>> ELSE <<>>)
         \o GroupPath(Tail(ch))

\* C16: WithGroup(name) extends the receiver's group path by name: a capturing
\* logger carries the dot-joined names of the WithGroup calls of its chain, in
\* order, and every entry it emits records that path as its group.
C16_WithGroupAppends ==
    backend = "mock" =>
        /\ \A i \in Ids : loggers[i].group = JoinDot(GroupPath(chain[i]))
        /\ last.op = "emit" =>
              LastEntry(last.lg).Group = JoinDot(GroupPath(chain[last.lg]))

\* A single WithGroup does what C16 says: with at most one group name on the
\* chain the logger and its entries carry that name.
GroupOfOneLevel ==
    backend = "mock" =>
        \A i \in Ids : Len(GroupPath(chain[i])) <= 1 =>
            loggers[i].group = JoinDot(GroupPath(chain[i]))

\* The fields a chain of With* calls binds on the standard backend in json
\* format, in binding order: all top-level, the group under the field name gfn.
RECURSIVE JSONChainFields(_, _)
JSONChainFields(ch, gfn) ==
    IF ch = <<>> THEN <<>>
    ELSE << CASE ch[1].op = "With" -> Attr(ch[1].key, ch[1].value)
              [] ch[1].op = "WithError" -> Attr("error", StrV(ch[1].value.v))
              [] ch[1].op = "WithGroup" -> Attr(gfn, ch[1].value) >>
         \o JSONChainFields(Tail(ch), gfn)

\* The fields the string-keyed pairs of a call add, top-level.
RECURSIVE JSONCallFields(_)
JSONCallFields(kvs) ==
    IF Len(kvs) < 2 THEN <<>>
    ELSE (IF IsString(kvs[1]) THEN <<Attr(kvs[1].v, kvs[2])>> ELSE <<>>)
         \o JSONCallFields(Tail(Tail(kvs)))

\* The field name New configures for groups.
ConfiguredGroupField == IF cfg.GroupFieldName = "" THEN "_group" ELSE cfg.GroupFieldName

MethodLevelName(method) ==
    CASE method = "Trace" -> "TRACE"
      [] method = "Debug" -> "DEBUG"
      [] method = "Info"  -> "INFO"
      [] method = "Warn"  -> "WARN"
      [] method = "Error" -> "ERROR"
      [] method = "Fatal" -> "FATAL"

KeepsEntries(i) ==
    (last'.op = "Reset" /\ last'.lg = i)
    \/ /\ Len(GetEntries(i)') >= Len(GetEntries(i))
       /\ \A k \in 1..Len(GetEntries(i)) : GetEntries(i)'[k] = GetEntries(i)[k]

\* C20: the capturing sequence is append-only.  Between resets of a capturing
\* logger the sequence observed through it only grows at the end: an entry
\* observed at index k stays at index k unchanged, whatever emission, With*
\* derivation or Reset is performed on that logger or on its parent, children
\* or siblings.
C20_AppendOnly == [][\A i \in 1..Len(loggers) : KeepsEntries(i)]_vars

\* On a single capturing logger (no derivation) the sequence is append-only.
AppendOnlyAlone == [][Len(loggers') = 1 => KeepsEntries(1)]_vars

\* What the queries of the capturing backend return through logger i.
Observed(i) ==
    [entries |-> GetEntries(i),
     lastEntry |-> LastEntry(i),
     has |-> [L \in MockLevels, m \in Msgs |-> HasEntry(i, L, m)],
     count |-> [L \in MockLevels |-> CountEntries(i, L)]]

\* C15: capturing queries return independent copies.  When a caller modifies
\* what GetEntries or LastEntry returned - the returned sequence, a returned
\* entry, its attribute mapping - no later HasEntry, CountEntries, LastEntry or
\* GetEntries call through any logger returns anything different.
C15_ReturnedCopiesIndependent ==
    [][last'.op \in {"MutateCopy", "MutateAttrs"} =>
          \A i \in 1..Len(loggers) : Observed(i)' = Observed(i)]_vars

\* Assigning to the returned sequence or to a field of a returned entry changes
\* nothing that a later query returns.
ReturnedStructIndependent ==
    [][last'.op = "MutateCopy" =>
          \A i \in 1..Len(loggers) : Observed(i)' = Observed(i)]_vars

\* Caller p is inside log / inside a query.
InLog(p) == procs[p].pc = "log"
InQuery(p) == procs[p].pc = "query"

\* The element the append of caller p stores into is one that the query of
\* caller q reads.
ReadsTarget(p, q) ==
    LET slot == TargetSlot(procs[p].lg)
        s == loggers[procs[q].lg].Entries
    IN slot.ptr # 0 /\ s.ptr = slot.ptr /\ slot.n <= s.len

\* C14: capturing backend locking.  The loggers that share entry storage (a
\* root and the loggers derived from it) are guarded by one lock: no two callers
\* are inside log at the same time with appends that store into the same
\* element of the shared storage, and no caller is inside log while a query
\* made through another of these loggers reads the element it stores into.
C14_OneLockPerSequence ==
    backend = "mock" =>
        \A p, q \in Callers : p # q =>
            /\ ~(/\ InLog(p) /\ InLog(q)
                 /\ TargetSlot(procs[p].lg).ptr # 0
                 /\ TargetSlot(procs[p].lg) = TargetSlot(procs[q].lg))
            /\ ~(InLog(p) /\ InQuery(q) /\ ReadsTarget(p, q))

\* Through one logger the lock excludes as C14 says: no caller is inside log
\* on a logger while another is inside log or inside a query on the same logger.
MutexPerLogger ==
    backend = "mock" =>
        \A p, q \in Callers : (p # q /\ InLog(p) /\ (InLog(q) \/ InQuery(q))) =>
            procs[p].lg # procs[q].lg

\* ---------------------------------------------------------------------------
\* Console handler under concurrent callers (slog.go 125-127, 206-270).
\* slog.Logger.Log asks the handler's Enabled and, if the level is enabled,
\* calls Handle, which builds the whole line in a local strings.Builder and
\* hands it to writer.Write once.  A caller is between the two while its pc is
\* "handle".
\* ---------------------------------------------------------------------------
\* Messages; the second ends in a line feed of its own.
ConsoleMsgs == {"x", "x\n"}

InHandle(p) == procs[p].pc = "handle"

\* The record slog.Logger.Log builds for a call.
CallRecord(call) ==
    [level |-> SlogLevel(call.method), msg |-> call.msg, attrs |-> ArgsToAttrs(call.kvs)]

\* SlogLogger.log up to the end of the buffer building in Handle: a suppressed
\* level returns at once, an enabled one leaves the line in the caller's buffer.
HandleBegin(p, i, method, msg, kvs) ==
    /\ backend = "slog" /\ status = "running"
    /\ loggers[i].handler.kind = "console"
    /\ procs[p] = Idle
    /\ LET h == loggers[i].handler
           call == Call("emit", i, method, msg, kvs, 0)
       IN IF ~Enabled(h, SlogLevel(method))
          THEN /\ last' = call
               /\ UNCHANGED procs
          ELSE /\ procs' = [procs EXCEPT ![p] = [pc |-> "handle", call |-> call,
                                                 buf |-> ConsoleLine(h, CallRecord(call))]]
               /\ UNCHANGED last
    /\ UNCHANGED <<backend, cfg, loggers, heap, ncaptured, nwrites, lastWrite, status,
                   exitCode, parent, chain>>

\* The writer.Write call that ends Handle; its error is returned to
\* slog.Logger.Log, which drops it.
HandleWrite(p, werr) ==
    /\ backend = "slog" /\ status = "running"
    /\ InHandle(p)
    /\ nwrites' = nwrites + 1
    /\ lastWrite' = [data |-> [format |-> "console", line |-> procs[p].buf], err |-> werr]
    /\ last' = [procs[p].call EXCEPT !.writes = 1]
    /\ procs' = [procs EXCEPT ![p] = Idle]
    /\ UNCHANGED <<backend, cfg, loggers, heap, ncaptured, status, exitCode, parent, chain>>

NextConsole ==
    \/ \E p \in Callers, i \in 1..Len(loggers), method \in {"Debug", "Info"},
          msg \in ConsoleMsgs :
          /\ nwrites + Cardinality({q \in Callers : InHandle(q)}) < MaxConsoleWrites
          /\ HandleBegin(p, i, method, msg, <<>>)
    \/ \E p \in Callers, werr \in BOOLEAN : HandleWrite(p, werr)
    \/ \E i \in 1..Len(loggers) :
          /\ Len(loggers) < MaxConsoleLoggers
          /\ SlogWith(i, "a", IntV(1))

SpecConsole == InitSlog({"info"}, {"console"}, {""}) /\ [][NextConsole]_vars

\* The number of line terminators Handle put into a line.
RECURSIVE Terminators(_)
Terminators(line) ==
    IF line = <<>> THEN 0
    ELSE (IF line[1].seg = "newline" THEN 1 ELSE 0) + Terminators(Tail(line))

\* The text ends in a line feed.
EndsInNewline(t) == \E m \in ConsoleMsgs \cup {""} : t = m \o "\n"

\* C13 (as the handler behaves): every step that calls Write calls it once,
\* for one caller that was inside Handle with an enabled level, and that call
\* is over afterwards whether Write failed or not; the payload is that
\* caller's whole line - timestamp first, the message verbatim, then exactly
\* one terminator, appended by Handle as the last segment - and no other
\* caller's buffer is touched; a call at a suppressed level returns without a
\* Write.
C13_ConsoleSingleWrite ==
    [][/\ nwrites' \in {nwrites, nwrites + 1}
       /\ nwrites' = nwrites + 1 =>
            \E p \in Callers :
               /\ InHandle(p) /\ procs'[p] = Idle
               /\ \A q \in Callers \ {p} : procs'[q] = procs[q]
               /\ LET call == procs[p].call
                      h == loggers[call.lg].handler
                      line == lastWrite'.data.line
                  IN /\ SlogLevel(call.method) >= h.minLevel
                     /\ lastWrite'.data.format = "console"
                     /\ line = ConsoleLine(h, CallRecord(call))
                     /\ line[1].seg = "time"
                     /\ line[Len(line)].seg = "newline"
                     /\ Terminators(line) = 1
                     /\ \E k \in 1..Len(line) : line[k] = [seg |-> "msg", text |-> call.msg]
                     /\ last' = [call EXCEPT !.writes = 1]
       /\ \A i \in 1..Len(loggers) :
            (last' # last /\ last'.op = "emit" /\ last'.lg = i
             /\ SlogLevel(last'.method) < loggers[i].handler.minLevel)
            => (nwrites' = nwrites /\ lastWrite' = lastWrite /\ last'.writes = 0)
      ]_vars

\* One caller has its line built and not yet written while the last Write,
\* made for a call on another logger, failed.
C13_Witness ==
    /\ backend = "slog" /\ lastWrite # NoWrite /\ lastWrite.err
    /\ last.op = "emit" /\ last.writes = 1
    /\ \E p \in Callers : InHandle(p) /\ procs[p].call.lg # last.lg

\* C13 as stated: the payload of every console Write ends in exactly one
\* newline, that is, the text before the terminator does not end in one.
C13_PayloadEndsInOneNewline ==
    (backend = "slog" /\ lastWrite # NoWrite /\ lastWrite.data.format = "console") =>
        LET line == lastWrite.data.line
        IN /\ line[Len(line)].seg = "newline"
           /\ ~EndsInNewline(line[Len(line) - 1].text)

\* ---------------------------------------------------------------------------
\* WithError next to With("error", message) in the three backends
\* (mock.go 96-98, slog.go 136-141, zerolog backend 119-123).
\* ---------------------------------------------------------------------------
\* Errors passed to WithError: a plain one and one that is a json.Marshaler,
\* both with the message "boom".
SugarErrs == {ErrV("boom"), MarshalErrV("boom", "{\"code\":7}")}

\* err.Error().
ErrorMessage(err) == StrV(err.v)

NextSugar ==
    \/ \E i \in Ids : ncaptured < MaxSugarEmits /\ MockEmit(i, "Info", "x", <<>>)
    \/ \E i \in Ids, e \in SugarErrs :
          Len(loggers) < MaxSugarLoggers /\ MockWithError(i, e)
    \/ \E i \in Ids, e \in SugarErrs :
          Len(loggers) < MaxSugarLoggers /\ MockWith(i, "error", ErrorMessage(e))
    \/ SlogEmits(MaxSugarEmits, {"Info"}, {"x"}, {<<>>})
    \/ \E i \in Ids, e \in SugarErrs :
          Len(loggers) < MaxSugarLoggers /\ SlogWithError(i, e)
    \/ \E i \in Ids, e \in SugarErrs :
          Len(loggers) < MaxSugarLoggers /\ SlogWith(i, "error", ErrorMessage(e))
    \/ ZerologEmits(MaxSugarEmits, {"Info"}, {"x"}, {<<>>})
    \/ \E i \in Ids, e \in SugarErrs :
          Len(loggers) < MaxSugarLoggers /\ ZerologWithError(i, e)
    \/ \E i \in Ids, e \in SugarErrs :
          Len(loggers) < MaxSugarLoggers /\ ZerologWith(i, "error", ErrorMessage(e))

InitSugar ==
    \/ InitMock
    \/ InitSlog({"info"}, {"console", "json"}, {""})
    \/ InitZerolog({"info"}, {"console", "json"})

SpecSugar == InitSugar /\ [][NextSugar]_vars

\* The record an Info("x") through logger i produces: the captured entry, or
\* the payload handed to the sink.
InfoRecord(i) ==
    CASE backend = "mock" ->
           [MockEntry(loggers[i], MockLevel("Info"), "x", <<>>) EXCEPT !.obj = 0]
      [] backend = "slog" ->
           Handle(loggers[i].handler, [level |-> SlogLevel("Info"), msg |-> "x", attrs |-> <<>>])
      [] backend = "zerolog" ->
           ZerologEvent(loggers[i], ZerologLevel("Info"), "x", <<>>)

\* Logger j came from WithError(e) and logger k from With("error", e.Error())
\* on the same receiver.
SugarPair(j, k, e) ==
    /\ j \in 2..Len(loggers) /\ k \in 2..Len(loggers)
    /\ parent[j] = parent[k]
    /\ chain[j][Len(chain[j])] = [op |-> "WithError", key |-> "error", value |-> e]
    /\ chain[k][Len(chain[k])] = [op |-> "With", key |-> "error", value |-> ErrorMessage(e)]

\* C19: in every backend and for every error e, the logger WithError(e) emits
\* the same records as the logger With("error", e.Error()) derived from the
\* same receiver.
C19_WithErrorIsSugar ==
    \A j, k \in 1..Len(loggers), e \in SugarErrs :
        SugarPair(j, k, e) => InfoRecord(j) = InfoRecord(k)

\* For an error that is not a json.Marshaler the two loggers emit the same
\* records in every backend.
SugarForPlainErrors ==
    \A j, k \in 1..Len(loggers), e \in SugarErrs :
        (SugarPair(j, k, e) /\ e.t = "err") => InfoRecord(j) = InfoRecord(k)

\* Outside the JSON format of the standard backend the two loggers emit the
\* same records for every error.
SugarOutsideSlogJSON ==
    \A j, k \in 1..Len(loggers), e \in SugarErrs :
        (SugarPair(j, k, e) /\ ~(backend = "slog" /\ loggers[j].handler.kind = "json"))
        => InfoRecord(j) = InfoRecord(k)

\* WithError and With leave the receiver as it was.
SugarKeepsReceiver ==
    [][(last' # last /\ last'.op \in {"With", "WithError"}) =>
          \A i \in 1..Len(loggers) : loggers'[i] = loggers[i]]_vars

\* ---------------------------------------------------------------------------
\* Console lines of the standard backend: group display and attribute order
\* (slog.go 143-148, 206-270, 293-305).
\* ---------------------------------------------------------------------------
\* Group names given to WithGroup; the empty name is a legal argument.
LineGroups == {"", "g1", "g2"}

\* Key/value arguments of an emission through a logger whose group field is gfn.
LineKvs(gfn) ==
    {<<>>,
     <<StrV(gfn), StrV("g3")>>,
     <<StrV("port"), IntV(8080), StrV(gfn), StrV("g3"), StrV("k"), IntV(1)>>}

NextLine ==
    \/ \E i \in Ids :
          \E kvs \in LineKvs(loggers[i].groupFieldName) :
             nwrites < MaxLineWrites /\ SlogEmit(i, "Info", "x", kvs, FALSE)
    \/ \E i \in Ids, kv \in WithInputs :
          Len(loggers) < MaxLineLoggers /\ SlogWith(i, kv[1], kv[2])
    \/ \E i \in Ids, g \in LineGroups :
          Len(loggers) < MaxLineLoggers /\ SlogWithGroup(i, g)

SpecLine == InitSlog({"info"}, {"console"}, GroupFieldNames) /\ [][NextLine]_vars

\* The call in `last` wrote a console line.
WroteLine ==
    /\ backend = "slog" /\ last.op = "emit" /\ last.writes = 1
    /\ lastWrite # NoWrite /\ lastWrite.data.format = "console"

\* The bracketed group segments of a line.
GroupSegments(line) == SelectSeq(line, LAMBDA x : x.seg = "group")

\* The chain holds two or more WithGroup calls, with distinct non-empty names.
ChainedGroups(ch) ==
    LET p == GroupPath(ch)
    IN /\ Len(p) >= 2
       /\ \A a \in 1..Len(p) : p[a] # ""
       /\ \A a, b \in 1..Len(p) : a # b => p[a] # p[b]

\* C21: after chained WithGroup(g1) ... WithGroup(gn) calls (n >= 2, distinct
\* non-empty names) every console line the logger emits has exactly one
\* bracketed group segment and it shows gn, the group bound last.
C21_ShowsMostRecentGroup ==
    (WroteLine /\ ChainedGroups(chain[last.lg])) =>
        LET segs == GroupSegments(lastWrite.data.line)
            p == GroupPath(chain[last.lg])
        IN Len(segs) = 1 /\ segs[1].text = p[Len(p)]

\* What the handler does instead: the one segment shows g1, the group bound first.
ShowsFirstBoundGroup ==
    (WroteLine /\ ChainedGroups(chain[last.lg])) =>
        LET segs == GroupSegments(lastWrite.data.line)
            p == GroupPath(chain[last.lg])
        IN Len(segs) = 1 /\ segs[1].text = p[1]

\* The printed values of the call-time attributes named gfn, in call order.
CallGroupValues(kvs, gfn) ==
    LET ps == SelectSeq(ClaimPairs(kvs), LAMBDA x : x[1] = gfn)
    IN [k \in 1..Len(ps) |-> ps[k][2]]

\* At most one group segment, placed right after the level and before the message.
GroupSegmentPlaced(line) ==
    LET segs == GroupSegments(line)
    IN /\ Len(segs) <= 1
       /\ line[2].seg = "level"
       /\ IF Len(segs) = 1
          THEN line[3].seg = "group" /\ line[4].seg = "msg"
          ELSE line[3].seg = "msg"

\* C22: console group lookup.  The group a line shows is the value of the first
\* handler-level attribute named groupFieldName; the first call-time attribute
\* of that name is used only if no handler-level attribute has the name; there
\* is at most one group segment, right after the level and before the message,
\* and none when no group is bound or passed.
C22_GroupLookup ==
    WroteLine =>
        LET line == lastWrite.data.line
            segs == GroupSegments(line)
            hv == GroupPath(chain[last.lg])
            cv == CallGroupValues(last.kvs, loggers[last.lg].groupFieldName)
        IN /\ GroupSegmentPlaced(line)
           /\ IF hv # <<>>
              THEN /\ segs # <<>> => segs[1].text = hv[1]
                   /\ hv[1] # "" => segs # <<>>
              ELSE IF cv # <<>>
              THEN /\ segs # <<>> => segs[1].text = cv[1]
                   /\ cv[1] # "" => segs # <<>>
              ELSE segs = <<>>

\* With no empty group name bound, the lookup is as C22 says.
GroupLookupNonEmpty ==
    (WroteLine /\ \A a \in 1..Len(GroupPath(chain[last.lg])) :
                     GroupPath(chain[last.lg])[a] # "") =>
        LET line == lastWrite.data.line
            segs == GroupSegments(line)
            hv == GroupPath(chain[last.lg])
            cv == CallGroupValues(last.kvs, loggers[last.lg].groupFieldName)
        IN /\ GroupSegmentPlaced(line)
           /\ IF hv # <<>> THEN segs = <<[seg |-> "group", text |-> hv[1]]>>
              ELSE IF cv # <<>> THEN segs = <<[seg |-> "group", text |-> cv[1]]>>
              ELSE segs = <<>>

\* The pairs of a sequence whose key is not gfn, in order.
WithoutGroupField(pairs, gfn) == SelectSeq(pairs, LAMBDA x : x[1] # gfn)

\* C23: console attribute order and completeness.  On every console line the
\* message is followed by every attribute bound by the With chain, in binding
\* order, and then by every call-time attribute, in call order, each once as
\* key=value; only the attributes named groupFieldName are left out.
C23_AttributeOrder ==
    WroteLine =>
        LET line == lastWrite.data.line
            gfn == loggers[last.lg].groupFieldName
        IN /\ ShownAttrs(lastWrite.data, gfn)
                = WithoutGroupField(ChainPairs(chain[last.lg]), gfn)
                  \o WithoutGroupField(ClaimPairs(last.kvs), gfn)
           /\ \A k \in 1..Len(line) :
                 line[k].seg = "msg" =>
                    /\ line[k].text = last.msg
                    /\ \A n \in 1..Len(line) :
                          /\ line[n].seg = "attr" => n > k
                          /\ (n > k /\ n < Len(line)) => line[n].seg = "attr"

\* A line written through a logger that bound a and then b, for a call that
\* passed port, the group field and k.
C23_Witness ==
    /\ WroteLine
    /\ ChainPairs(chain[last.lg]) = << <<"a", "1">>, <<"b", "2">> >>
    /\ Len(last.kvs) = 6

\* ---------------------------------------------------------------------------
\* Group-valued attributes on the console format (slog.go 272-291, 307-323).
\* ---------------------------------------------------------------------------
\* A group value: a sequence of attributes (slog.GroupValue, or []slog.Attr
\* passed as a value).
GroupV(attrs) == [t |-> "group", v |-> attrs]

\* One level, two levels with two leaves and a leaf beside the inner group,
\* two sibling groups, three levels, and a group of nothing.
OneDeep == GroupV(<<Attr("k", IntV(1))>>)
TwoDeep ==
    GroupV(<<Attr("inner", GroupV(<<Attr("k", IntV(1)), Attr("j", IntV(2))>>)),
             Attr("z", IntV(3))>>)
SiblingGroups ==
    GroupV(<<Attr("p", GroupV(<<Attr("k", IntV(1))>>)),
             Attr("q", GroupV(<<Attr("k", IntV(2))>>))>>)
ThreeDeep == GroupV(<<Attr("m", GroupV(<<Attr("n", GroupV(<<Attr("k", IntV(1))>>))>>))>>)
EmptyGroup == GroupV(<<>>)

\* ConsoleHandler.WithGroup behind slog.Logger.WithGroup, for a logger used
\* through its handler: the empty name gives the receiver back, another name
\* gives a handler with the name added to its groups.
HandlerWithGroup(i, name) ==
    /\ backend = "slog" /\ status = "running"
    /\ loggers[i].handler.kind = "console"
    /\ IF name = ""
       THEN /\ last' = Call("HandlerWithGroup", i, "", "", <<>>, i)
            /\ UNCHANGED <<loggers, parent, chain>>
       ELSE Derive(i, [loggers[i] EXCEPT !.handler.groups = Append(@, name)],
                   [op |-> "HandlerWithGroup", key |-> "", value |-> StrV(name)])
    /\ UNCHANGED <<procs, backend, cfg, heap, ncaptured, nwrites, lastWrite, status, exitCode>>

NextNested ==
    \/ \E i \in Ids, kvs \in {<<>>, <<StrV("outer"), OneDeep>>,
                              <<StrV("s"), SiblingGroups, StrV("t"), ThreeDeep>>} :
          nwrites < MaxNestedWrites /\ SlogEmit(i, "Info", "x", kvs, FALSE)
    \/ \E i \in Ids, v \in {TwoDeep, EmptyGroup} :
          Len(loggers) < MaxNestedLoggers /\ SlogWith(i, "outer", v)
    \/ \E i \in Ids, name \in {"", "h"} :
          Len(loggers) < MaxNestedLoggers /\ HandlerWithGroup(i, name)

SpecNested == InitSlog({"info"}, {"console"}, {""}) /\ [][NextNested]_vars

\* The leaves of an attribute, as <<qualified key, printed value>>, in order:
\* an attribute that is not a group is its own leaf, under the names in path.
RECURSIVE Leaves(_, _)
RECURSIVE LeavesOf(_, _)
Leaves(a, path) ==
    IF a.value.t = "group"
    THEN LeavesOf(a.value.v, Append(path, a.key))
    ELSE << <<JoinDot(Append(path, a.key)), ValueString(a.value)>> >>

LeavesOf(attrs, path) ==
    IF attrs = <<>> THEN <<>>
    ELSE Leaves(attrs[1], path) \o LeavesOf(Tail(attrs), path)

\* The attributes the With calls of a chain bind, in binding order.
RECURSIVE ChainAttrs(_)
ChainAttrs(ch) ==
    IF ch = <<>> THEN <<>>
    ELSE (IF ch[1].op = "With" THEN <<Attr(ch[1].key, ch[1].value)>> ELSE <<>>)
         \o ChainAttrs(Tail(ch))

\* The groups the chain opened on the handler, outermost first.
RECURSIVE OpenGroups(_)
OpenGroups(ch) ==
    IF ch = <<>> THEN <<>>
    ELSE (IF ch[1].op = "HandlerWithGroup" THEN <<ch[1].value.v>> ELSE <<>>)
         \o OpenGroups(Tail(ch))

\* C24: console nested-group flattening.  A group-valued attribute is not
\* printed itself; each leaf inside it is printed once, its key prefixed with
\* the dot-joined names of the groups around it, outermost first (the handler's
\* open groups, then the nested groups); leaves keep their order and a sibling
\* group's name is in no other group's prefix.
C24_NestedGroupsFlattened ==
    WroteLine =>
        ShownAttrs(lastWrite.data, loggers[last.lg].groupFieldName)
          = LeavesOf(ChainAttrs(chain[last.lg]), OpenGroups(chain[last.lg]))
            \o LeavesOf(JSONCallFields(last.kvs), OpenGroups(chain[last.lg]))

\* A line for a call passing sibling groups and a group three deep, through a
\* logger that bound a group two deep: the leaves as the line shows them.
C24_Witness ==
    /\ WroteLine
    /\ OpenGroups(chain[last.lg]) = <<>>
    /\ ShownAttrs(lastWrite.data, "_group")
         = << <<"outer.inner.k", "1">>, <<"outer.inner.j", "2">>, <<"outer.z", "3">>,
              <<"s.p.k", "1">>, <<"s.q.k", "2">>, <<"t.m.n.k", "1">> >>

====
